---- MODULE Spec2Model ----
(***************************************************************************)
(* GrafoDisperso: a directed graph held in Compressed-Sparse-Row form      *)
(* (GrafoDisperso.cpp / GrafoDisperso.h / GrafoBase.h).                    *)
(*                                                                         *)
(* std::vector<T> is a sequence; C++ index i is position i + 1.            *)
(* An access outside a vector is undefined behaviour.  Its outcomes here:  *)
(* the process aborts (a hardened or instrumented build), or it goes on,   *)
(* an out-of-range read observing some value of Basura and an out-of-range *)
(* write landing outside the vector's contents.                            *)
(***************************************************************************)
EXTENDS Integers, Sequences, FiniteSets, Bags, TLC

\* ---------------------------------------------------------------- bounds
\* SpecFresco: ids 0..MaxNodo, edge-list files of at most MaxLineas lines.
MaxNodo == 2
MaxLineas == 3
\* Spec: ids 0..MaxNodoRecarga, files of at most MaxLineasRecarga lines of
\* any kind, at most MaxCargas successful loads.
MaxNodoRecarga == 1
MaxLineasRecarga == 2
MaxCargas == 2
\* SpecOrden: ids 0..MaxNodoOrden, files of at most MaxLineasOrden lines
\* "a b" with a < b: large enough for two parents on one BFS level, each with
\* a child of its own.
MaxNodoOrden == 4
MaxLineasOrden == 4

VARIABLES
    numNodos,        \* int numNodos
    numAristas,      \* int numAristas
    row_ptr,         \* std::vector<int> row_ptr
    column_indices,  \* std::vector<int> column_indices
    values,          \* std::vector<int> values
    gradoEntrada,    \* std::vector<int> gradoEntrada
    pc,              \* "idle", the traversal in progress, or "abortado"
    op,              \* the last operation called
    args,            \* its arguments [nodo, prof]
    ret,             \* the value the last completed operation returned
    cola,            \* std::queue<std::pair<int,int>> cola (BFS, getAristasSubgrafo)
    pila,            \* std::stack<int> pila (DFS), top = last element
    visitado,        \* std::vector<bool> visitado, as the set of indices set to true
    nodosEnSubgrafo, \* std::unordered_set<int> nodosEnSubgrafo
    resultado,       \* the traversal's output vector (resultado / aristas)
    empujes,         \* how many push calls the traversal has made on cola / pila
    oob,             \* some access so far was outside its vector
    archivo,         \* the lines of the last file loaded, as a bag
    fresco,          \* the engine a new GrafoDisperso holds after loading it
    cargas           \* number of successful loads so far

motor == <<numNodos, numAristas, row_ptr, column_indices, values, gradoEntrada>>
llamada == <<pc, op, args, ret>>
locales == <<cola, pila, visitado, nodosEnSubgrafo, resultado, empujes>>
historia == <<archivo, fresco, cargas>>
vars == <<motor, llamada, locales, oob, historia>>

\* The engine's fields as one record, for the operators below.
Motor ==
    [numNodos |-> numNodos, numAristas |-> numAristas, row_ptr |-> row_ptr,
     column_indices |-> column_indices, values |-> values,
     gradoEntrada |-> gradoEntrada]

\* GrafoDisperso::GrafoDisperso(): numNodos(0), numAristas(0), empty vectors.
MotorVacio ==
    [numNodos |-> 0, numAristas |-> 0, row_ptr |-> <<>>,
     column_indices |-> <<>>, values |-> <<>>, gradoEntrada |-> <<>>]

\* ------------------------------------------------------------ vectors
Max(a, b) == IF a >= b THEN a ELSE b
Min(a, b) == IF a <= b THEN a ELSE b

FueraDeRango(v, i) == i < 0 \/ i >= Len(v)

\* v[i], an out-of-range read observing b.
Leer(v, i, b) == IF FueraDeRango(v, i) THEN b ELSE v[i + 1]

\* v[i] = x, an out-of-range write leaving the contents as they are.
Escribir(v, i, x) == IF FueraDeRango(v, i) THEN v ELSE [v EXCEPT ![i + 1] = x]

\* v[i]++
Incrementar(v, i) == Escribir(v, i, Leer(v, i, 0) + 1)

\* std::vector::resize(n, x): the first n elements are kept, only the new
\* ones are set to x.
Resize(v, n, x) ==
    IF n <= Len(v) THEN SubSeq(v, 1, n)
    ELSE v \o [i \in 1..(n - Len(v)) |-> x]

Repetir(n, x) == [i \in 1..n |-> x]

\* What out-of-range reads may observe.
Basura == {0, MaxNodo + 1}

\* The outcomes <<r, aborta>> of a computation that yields the record r0
\* when its out-of-range reads observe 0, and a record of rs when they observe
\* any b of Basura.  With every access in range (r0.oob false) nothing was
\* read out of range and r0 is the outcome; otherwise each of rs is one, the
\* process going on or aborting.
Desenlaces(r0, rs) ==
    IF ~r0.oob THEN {<<r0, FALSE>>} ELSE rs \X BOOLEAN

\* ------------------------------------------------------------- the file
\* A token of a line: an integer, or a word that is no integer.
Ent(n) == [ent |-> TRUE, val |-> n]
Palabra == [ent |-> FALSE, val |-> 0]

\* A line: whether its first character is '#', and its whitespace-separated
\* tokens.
Linea(ts) == [hash |-> FALSE, toks |-> ts]
Comentario == [hash |-> TRUE, toks |-> <<>>]
Vacia == Linea(<<>>)

LineasArista(n) == {Linea(<<Ent(a), Ent(b)>>) : a, b \in 0..n}

\* Lines that are no "origen destino" pair: empty, one integer, an integer
\* and a word, two integers and a third.
LineasRaras(n) ==
    {Vacia,
     Linea(<<Ent(n)>>),
     Linea(<<Ent(n), Palabra>>),
     Linea(<<Ent(0), Ent(n), Ent(n)>>)}

Archivos(lineas, n) == UNION {[1..k -> lineas] : k \in 0..n}

ArchivosFresco == Archivos(LineasArista(MaxNodo) \cup {Comentario}, MaxLineas)

ArchivosRecarga ==
    Archivos(LineasArista(MaxNodoRecarga) \cup {Comentario}
                 \cup LineasRaras(MaxNodoRecarga),
             MaxLineasRecarga)

ArchivosOrden ==
    Archivos({Linea(<<Ent(p[1]), Ent(p[2])>>) :
                  p \in {q \in (0..MaxNodoOrden) \X (0..MaxNodoOrden) :
                             q[1] < q[2]}},
             MaxLineasOrden)

BolsaDe(f) ==
    [l \in {f[i] : i \in DOMAIN f} |-> Cardinality({i \in DOMAIN f : f[i] = l})]

\* cargarDatos, the body of the getline loop for one line.
ProcesarLinea(acc, l) ==
    IF l.hash \/ l.toks = <<>> THEN acc
    ELSE IF Len(l.toks) >= 2 /\ l.toks[1].ent /\ l.toks[2].ent
    THEN LET origen == l.toks[1].val
             destino == l.toks[2].val
         IN [aristas |-> Append(acc.aristas, <<origen, destino>>),
             maxNodo |-> Max(acc.maxNodo, Max(origen, destino))]
    ELSE acc

RECURSIVE LeerLineas(_, _)
LeerLineas(acc, f) ==
    IF f = <<>> THEN acc ELSE LeerLineas(ProcesarLinea(acc, Head(f)), Tail(f))

\* cargarDatos, the getline loop: aristas and maxNodo (which starts at 0).
LeerAristas_DesdeMenosUno(f) ==
    LeerLineas([aristas |-> <<>>, maxNodo |-> -1], f)

LeerAristas(f) == LeerLineas([aristas |-> <<>>, maxNodo |-> 0], f)

\* --------------------------------------------------------- construirCSR
\* First pass: row_ptr[arista.first + 1]++, gradoEntrada[arista.second]++.
RECURSIVE ContarGrados_EntradaPorOrigen(_, _, _)
ContarGrados_EntradaPorOrigen(rp, ge, aristas) ==
    IF aristas = <<>> THEN [row_ptr |-> rp, gradoEntrada |-> ge]
    ELSE LET a == Head(aristas)
         IN ContarGrados_EntradaPorOrigen(Incrementar(rp, a[1] + 1),
                                          Incrementar(ge, a[1]), Tail(aristas))

RECURSIVE ContarGrados(_, _, _)
ContarGrados(rp, ge, aristas) ==
    IF aristas = <<>> THEN [row_ptr |-> rp, gradoEntrada |-> ge]
    ELSE LET a == Head(aristas)
         IN ContarGrados(Incrementar(rp, a[1] + 1), Incrementar(ge, a[2]),
                         Tail(aristas))

\* for (i = 1; i <= n; i++) row_ptr[i] += row_ptr[i - 1];
RECURSIVE PrefijosDesde(_, _, _)
PrefijosDesde(rp, i, n) ==
    IF i > n THEN rp
    ELSE PrefijosDesde(Escribir(rp, i, Leer(rp, i, 0) + Leer(rp, i - 1, 0)),
                       i + 1, n)

Prefijos_SinUltimo(rp, n) == PrefijosDesde(rp, 1, n - 1)

Prefijos(rp, n) == PrefijosDesde(rp, 1, n)

\* Second pass: pos = currentPos[origen]++; column_indices[pos] = destino.
RECURSIVE Llenar(_, _, _, _)
Llenar(ci, currentPos, aristas, fuera) ==
    IF aristas = <<>> THEN [column_indices |-> ci, oob |-> fuera]
    ELSE LET origen == Head(aristas)[1]
             destino == Head(aristas)[2]
             pos == Leer(currentPos, origen, 0)
         IN Llenar(Escribir(ci, pos, destino),
                   Incrementar(currentPos, origen),
                   Tail(aristas),
                   fuera \/ FueraDeRango(currentPos, origen)
                         \/ FueraDeRango(ci, pos))

Ordenada(s) == SortSeq(s, LAMBDA x, y : x < y)

\* std::sort(column_indices.begin() + lo, column_indices.begin() + hi).
\* A range reaching past the end sorts what lies there (b) together with
\* the elements of the vector.
OrdenarRango_SinOrdenar(ci, lo, hi, b) == ci

OrdenarRango(ci, lo, hi, b) ==
    LET n == Len(ci) IN
    IF lo >= hi THEN ci
    ELSE IF hi <= n
    THEN SubSeq(ci, 1, lo) \o Ordenada(SubSeq(ci, lo + 1, hi))
             \o SubSeq(ci, hi + 1, n)
    ELSE LET desde == Min(lo, n)
             mezcla == Ordenada(SubSeq(ci, desde + 1, n)
                                    \o Repetir(hi - Max(lo, n), b))
         IN SubSeq(ci, 1, desde) \o SubSeq(mezcla, 1, n - desde)

\* for (i = 0; i < numNodos; i++) std::sort(row i)
RECURSIVE OrdenarFilas(_, _, _, _, _, _)
OrdenarFilas(ci, rp, i, n, b, fuera) ==
    IF i >= n THEN [column_indices |-> ci, oob |-> fuera]
    ELSE LET lo == Leer(rp, i, 0)
             hi == Leer(rp, i + 1, 0)
         IN OrdenarFilas(OrdenarRango(ci, lo, hi, b), rp, i + 1, n, b,
                         fuera \/ lo > Len(ci) \/ hi > Len(ci) \/ lo > hi)

\* GrafoDisperso::construirCSR on the engine g.  oob: some access was out of
\* range.
ConstruirCSR(g, aristas, maxNodo, b) ==
    LET nodos == maxNodo + 1
        nAristas == Len(aristas)
        cuenta == ContarGrados(Resize(g.row_ptr, nodos + 1, 0),
                               Resize(g.gradoEntrada, nodos, 0), aristas)
        rp == Prefijos(cuenta.row_ptr, nodos)
        ci0 == Resize(g.column_indices, nAristas, 0)
        vals == Resize(g.values, nAristas, 1)
        currentPos == SubSeq(rp, 1, nodos)
        lleno == Llenar(ci0, currentPos, aristas, FALSE)
        filas == OrdenarFilas(lleno.column_indices, rp, 0, nodos, b, lleno.oob)
    IN [numNodos |-> nodos, numAristas |-> nAristas, row_ptr |-> rp,
        column_indices |-> filas.column_indices, values |-> vals,
        gradoEntrada |-> cuenta.gradoEntrada, oob |-> filas.oob]

\* cargarDatos when the file cannot be opened: return false, nothing touched.
CargaFallida_Vacia(g) == MotorVacio

CargaFallida(g) == g

\* -------------------------------------------------------------- queries
\* if (nodo < 0 || nodo >= numNodos) return <sentinel>;
NodoValido_HastaNumNodos(g, nodo) == nodo >= 0 /\ nodo <= g.numNodos

NodoValido(g, nodo) == nodo >= 0 /\ nodo < g.numNodos

\* Every query below yields [val, oob]: the value returned, and whether an
\* access was out of range on the way.

\* int obtenerGrado(int nodo)
ObtenerGrado(g, nodo, b) ==
    IF ~NodoValido(g, nodo) THEN [val |-> -1, oob |-> FALSE]
    ELSE [val |-> Leer(g.row_ptr, nodo + 1, b) - Leer(g.row_ptr, nodo, b),
          oob |-> FueraDeRango(g.row_ptr, nodo + 1)
                      \/ FueraDeRango(g.row_ptr, nodo)]

\* int obtenerGradoEntrada(int nodo)
ObtenerGradoEntrada(g, nodo, b) ==
    IF ~NodoValido(g, nodo) THEN [val |-> -1, oob |-> FALSE]
    ELSE [val |-> Leer(g.gradoEntrada, nodo, b),
          oob |-> FueraDeRango(g.gradoEntrada, nodo)]

\* std::vector<int> getVecinos(int nodo)
GetVecinos(g, nodo, b) ==
    IF ~NodoValido(g, nodo) THEN [val |-> <<>>, oob |-> FALSE]
    ELSE LET inicio == Leer(g.row_ptr, nodo, b)
             fin == Leer(g.row_ptr, nodo + 1, b)
         IN [val |-> [k \in 1..(fin - inicio) |->
                          Leer(g.column_indices, inicio + k - 1, b)],
             oob |-> \/ FueraDeRango(g.row_ptr, nodo)
                     \/ FueraDeRango(g.row_ptr, nodo + 1)
                     \/ \E i \in inicio..(fin - 1) :
                            FueraDeRango(g.column_indices, i)]

\* std::pair<int,int> getNodoMayorGrado(): the scan from node i on.
RECURSIVE MayorGradoDesde_UltimoEmpate(_, _, _, _, _, _)
MayorGradoDesde_UltimoEmpate(g, i, nodoMax, maxGrado, b, fuera) ==
    IF i >= g.numNodos THEN [val |-> <<nodoMax, maxGrado>>, oob |-> fuera]
    ELSE LET grado == ObtenerGrado(g, i, b)
         IN IF grado.val >= maxGrado
            THEN MayorGradoDesde_UltimoEmpate(g, i + 1, i, grado.val, b,
                                              fuera \/ grado.oob)
            ELSE MayorGradoDesde_UltimoEmpate(g, i + 1, nodoMax, maxGrado, b,
                                              fuera \/ grado.oob)

RECURSIVE MayorGradoDesde(_, _, _, _, _, _)
MayorGradoDesde(g, i, nodoMax, maxGrado, b, fuera) ==
    IF i >= g.numNodos THEN [val |-> <<nodoMax, maxGrado>>, oob |-> fuera]
    ELSE LET grado == ObtenerGrado(g, i, b)
         IN IF grado.val > maxGrado
            THEN MayorGradoDesde(g, i + 1, i, grado.val, b, fuera \/ grado.oob)
            ELSE MayorGradoDesde(g, i + 1, nodoMax, maxGrado, b,
                                 fuera \/ grado.oob)

GetNodoMayorGrado(g, b) == MayorGradoDesde(g, 0, -1, 0, b, FALSE)

\* sizeof(int)
TamInt == 4

\* size_t getMemoriaUsada(): capacity() is at least size(); holgura is what
\* the four vectors hold in reserve beyond their sizes.
GetMemoriaUsada(g, holgura) ==
    (Len(g.row_ptr) + Len(g.column_indices) + Len(g.values)
         + Len(g.gradoEntrada) + holgura) * TamInt

\* printDebugInfo(): the counts and the leading entries printed.
DebugFilas == 10
DebugColumnas == 20

PrintDebugInfo(g) ==
    <<g.numNodos, g.numAristas,
      SubSeq(g.row_ptr, 1, Min(DebugFilas, Len(g.row_ptr))),
      SubSeq(g.column_indices, 1, Min(DebugColumnas, Len(g.column_indices)))>>

\* ------------------------------------------------------------------ BFS
\* A traversal's locals: [cola, pila, visitado, nodosEnSubgrafo, resultado,
\* empujes, oob].
LocalesVacios ==
    [cola |-> <<>>, pila |-> <<>>, visitado |-> {}, nodosEnSubgrafo |-> {},
     resultado |-> <<>>, empujes |-> 0, oob |-> FALSE]

\* cola.push({nodoInicio, 0}); visitado[nodoInicio] = true;
BFSInicio_SinMarcar(g, nodoInicio) ==
    [LocalesVacios EXCEPT !.cola = <<<<nodoInicio, 0>>>>, !.empujes = 1]

BFSInicio(g, nodoInicio) ==
    [LocalesVacios EXCEPT !.cola = <<<<nodoInicio, 0>>>>,
                          !.empujes = 1,
                          !.visitado = {nodoInicio}]

\* for (i = inicio; i < fin; i++) { vecino = column_indices[i];
\*     if (!visitado[vecino]) { visitado[vecino] = true; cola.push(...); } }
RECURSIVE BFSVecinos_SinUltimo(_, _, _, _, _, _)
BFSVecinos_SinUltimo(g, st, i, fin, nivel, b) ==
    IF i >= fin - 1 THEN st
    ELSE LET vecino == Leer(g.column_indices, i, b)
             fuera == st.oob \/ FueraDeRango(g.column_indices, i)
                             \/ ~NodoValido(g, vecino)
         IN IF vecino \notin st.visitado
            THEN BFSVecinos_SinUltimo(g,
                     [st EXCEPT !.visitado = @ \cup {vecino},
                                !.cola = Append(@, <<vecino, nivel + 1>>),
                                !.empujes = @ + 1,
                                !.oob = fuera],
                     i + 1, fin, nivel, b)
            ELSE BFSVecinos_SinUltimo(g, [st EXCEPT !.oob = fuera], i + 1, fin,
                                      nivel, b)

RECURSIVE BFSVecinos_SinMarcar(_, _, _, _, _, _)
BFSVecinos_SinMarcar(g, st, i, fin, nivel, b) ==
    IF i >= fin THEN st
    ELSE LET vecino == Leer(g.column_indices, i, b)
             fuera == st.oob \/ FueraDeRango(g.column_indices, i)
                             \/ ~NodoValido(g, vecino)
         IN IF vecino \notin st.visitado
            THEN BFSVecinos_SinMarcar(g,
                     [st EXCEPT !.cola = Append(@, <<vecino, nivel + 1>>),
                                !.empujes = @ + 1,
                                !.oob = fuera],
                     i + 1, fin, nivel, b)
            ELSE BFSVecinos_SinMarcar(g, [st EXCEPT !.oob = fuera], i + 1, fin,
                                      nivel, b)

RECURSIVE BFSVecinos(_, _, _, _, _, _)
BFSVecinos(g, st, i, fin, nivel, b) ==
    IF i >= fin THEN st
    ELSE LET vecino == Leer(g.column_indices, i, b)
             fuera == st.oob \/ FueraDeRango(g.column_indices, i)
                             \/ ~NodoValido(g, vecino)
         IN IF vecino \notin st.visitado
            THEN BFSVecinos(g,
                     [st EXCEPT !.visitado = @ \cup {vecino},
                                !.cola = Append(@, <<vecino, nivel + 1>>),
                                !.empujes = @ + 1,
                                !.oob = fuera],
                     i + 1, fin, nivel, b)
            ELSE BFSVecinos(g, [st EXCEPT !.oob = fuera], i + 1, fin, nivel, b)

\* if (nivel >= profundidadMaxima) continue;
BFSCorta_Estricto(nivel, profundidadMaxima) == nivel > profundidadMaxima

BFSCorta(nivel, profundidadMaxima) == nivel >= profundidadMaxima

\* One iteration of while (!cola.empty()).
BFSPaso_UltimoPrimero(g, st, profundidadMaxima, b) ==
    LET nodoActual == st.cola[Len(st.cola)][1]
        nivel == st.cola[Len(st.cola)][2]
        sacado == [st EXCEPT !.cola = SubSeq(@, 1, Len(@) - 1),
                             !.resultado = Append(@, <<nodoActual, nivel>>)]
    IN IF BFSCorta(nivel, profundidadMaxima) THEN sacado
       ELSE LET inicio == Leer(g.row_ptr, nodoActual, b)
                fin == Leer(g.row_ptr, nodoActual + 1, b)
            IN BFSVecinos(g,
                   [sacado EXCEPT !.oob = @ \/ FueraDeRango(g.row_ptr, nodoActual)
                                      \/ FueraDeRango(g.row_ptr, nodoActual + 1)],
                   inicio, fin, nivel, b)

BFSPaso(g, st, profundidadMaxima, b) ==
    LET nodoActual == Head(st.cola)[1]
        nivel == Head(st.cola)[2]
        sacado == [st EXCEPT !.cola = Tail(@),
                             !.resultado = Append(@, <<nodoActual, nivel>>)]
    IN IF BFSCorta(nivel, profundidadMaxima) THEN sacado
       ELSE LET inicio == Leer(g.row_ptr, nodoActual, b)
                fin == Leer(g.row_ptr, nodoActual + 1, b)
            IN BFSVecinos(g,
                   [sacado EXCEPT !.oob = @ \/ FueraDeRango(g.row_ptr, nodoActual)
                                      \/ FueraDeRango(g.row_ptr, nodoActual + 1)],
                   inicio, fin, nivel, b)

RECURSIVE BFSBucle(_, _, _, _)
BFSBucle(g, st, profundidadMaxima, b) ==
    IF st.cola = <<>> THEN st
    ELSE BFSBucle(g, BFSPaso(g, st, profundidadMaxima, b), profundidadMaxima, b)

\* std::vector<std::pair<int,int>> BFS(nodoInicio, profundidadMaxima), whole.
BFS(g, nodoInicio, profundidadMaxima, b) ==
    IF ~NodoValido(g, nodoInicio) THEN [val |-> <<>>, oob |-> FALSE]
    ELSE LET st == BFSBucle(g, BFSInicio(g, nodoInicio), profundidadMaxima, b)
         IN [val |-> st.resultado, oob |-> st.oob]

\* ------------------------------------------------------------------ DFS
\* pila.push(nodoInicio);
DFSInicio(g, nodoInicio) ==
    [LocalesVacios EXCEPT !.pila = <<nodoInicio>>, !.empujes = 1]

\* for (i = fin - 1; i >= inicio; i--) { vecino = column_indices[i];
\*     if (!visitado[vecino]) pila.push(vecino); }
RECURSIVE DFSVecinos_EnOrden(_, _, _, _, _)
DFSVecinos_EnOrden(g, st, i, inicio, b) ==
    IF i < inicio THEN st
    ELSE LET vecino == Leer(g.column_indices, inicio, b)
             fuera == st.oob \/ FueraDeRango(g.column_indices, inicio)
                             \/ ~NodoValido(g, vecino)
         IN IF vecino \notin st.visitado
            THEN DFSVecinos_EnOrden(g,
                     [st EXCEPT !.pila = Append(@, vecino), !.empujes = @ + 1,
                                !.oob = fuera],
                     i, inicio + 1, b)
            ELSE DFSVecinos_EnOrden(g, [st EXCEPT !.oob = fuera], i,
                                    inicio + 1, b)

RECURSIVE DFSVecinos(_, _, _, _, _)
DFSVecinos(g, st, i, inicio, b) ==
    IF i < inicio THEN st
    ELSE LET vecino == Leer(g.column_indices, i, b)
             fuera == st.oob \/ FueraDeRango(g.column_indices, i)
                             \/ ~NodoValido(g, vecino)
         IN IF vecino \notin st.visitado
            THEN DFSVecinos(g,
                     [st EXCEPT !.pila = Append(@, vecino), !.empujes = @ + 1,
                                !.oob = fuera],
                     i - 1, inicio, b)
            ELSE DFSVecinos(g, [st EXCEPT !.oob = fuera], i - 1, inicio, b)

\* if (visitado[nodoActual]) continue;
DFSYaVisitado_Nunca(st, nodoActual) == FALSE

DFSYaVisitado(st, nodoActual) == nodoActual \in st.visitado

\* One iteration of while (!pila.empty()).
DFSPaso(g, st, b) ==
    LET nodoActual == st.pila[Len(st.pila)]
        sacado == [st EXCEPT !.pila = SubSeq(@, 1, Len(@) - 1),
                             !.oob = @ \/ ~NodoValido(g, nodoActual)]
    IN IF DFSYaVisitado(st, nodoActual) THEN sacado
       ELSE LET inicio == Leer(g.row_ptr, nodoActual, b)
                fin == Leer(g.row_ptr, nodoActual + 1, b)
            IN DFSVecinos(g,
                   [sacado EXCEPT !.visitado = @ \cup {nodoActual},
                                  !.resultado = Append(@, nodoActual),
                                  !.oob = @ \/ FueraDeRango(g.row_ptr, nodoActual)
                                      \/ FueraDeRango(g.row_ptr, nodoActual + 1)],
                   fin - 1, inicio, b)

RECURSIVE DFSBucle(_, _, _)
DFSBucle(g, st, b) ==
    IF st.pila = <<>> THEN st ELSE DFSBucle(g, DFSPaso(g, st, b), b)

\* std::vector<int> DFS(nodoInicio), whole.
DFS(g, nodoInicio, b) ==
    IF ~NodoValido(g, nodoInicio) THEN [val |-> <<>>, oob |-> FALSE]
    ELSE LET st == DFSBucle(g, DFSInicio(g, nodoInicio), b)
         IN [val |-> st.resultado, oob |-> st.oob]

\* --------------------------------------------------- getAristasSubgrafo
\* cola.push({nodoInicio, 0}); nodosEnSubgrafo.insert(nodoInicio);
SubInicio(g, nodoInicio) ==
    [LocalesVacios EXCEPT !.cola = <<<<nodoInicio, 0>>>>,
                          !.empujes = 1,
                          !.nodosEnSubgrafo = {nodoInicio}]

\* for (i = inicio; i < fin; i++) { vecino = column_indices[i];
\*     aristas.emplace_back(nodoActual, vecino);
\*     if (not in nodosEnSubgrafo) { insert; cola.push(...); } }
RECURSIVE SubVecinos_SoloNuevas(_, _, _, _, _, _, _)
SubVecinos_SoloNuevas(g, st, nodoActual, i, fin, nivel, b) ==
    IF i >= fin THEN st
    ELSE LET vecino == Leer(g.column_indices, i, b)
             fuera == st.oob \/ FueraDeRango(g.column_indices, i)
         IN IF vecino \notin st.nodosEnSubgrafo
            THEN SubVecinos_SoloNuevas(g,
                     [st EXCEPT !.resultado = Append(@, <<nodoActual, vecino>>),
                                !.oob = fuera,
                                !.nodosEnSubgrafo = @ \cup {vecino},
                                !.empujes = @ + 1,
                                !.cola = Append(@, <<vecino, nivel + 1>>)],
                     nodoActual, i + 1, fin, nivel, b)
            ELSE SubVecinos_SoloNuevas(g, [st EXCEPT !.oob = fuera],
                                       nodoActual, i + 1, fin, nivel, b)

RECURSIVE SubVecinos(_, _, _, _, _, _, _)
SubVecinos(g, st, nodoActual, i, fin, nivel, b) ==
    IF i >= fin THEN st
    ELSE LET vecino == Leer(g.column_indices, i, b)
             anotada == [st EXCEPT
                             !.resultado = Append(@, <<nodoActual, vecino>>),
                             !.oob = @ \/ FueraDeRango(g.column_indices, i)]
         IN IF vecino \notin st.nodosEnSubgrafo
            THEN SubVecinos(g,
                     [anotada EXCEPT !.nodosEnSubgrafo = @ \cup {vecino},
                                     !.empujes = @ + 1,
                                     !.cola = Append(@, <<vecino, nivel + 1>>)],
                     nodoActual, i + 1, fin, nivel, b)
            ELSE SubVecinos(g, anotada, nodoActual, i + 1, fin, nivel, b)

\* One iteration of while (!cola.empty()).
SubPaso_Estricto(g, st, profundidadMaxima, b) ==
    LET nodoActual == Head(st.cola)[1]
        nivel == Head(st.cola)[2]
        sacado == [st EXCEPT !.cola = Tail(@)]
    IN IF nivel > profundidadMaxima THEN sacado
       ELSE LET inicio == Leer(g.row_ptr, nodoActual, b)
                fin == Leer(g.row_ptr, nodoActual + 1, b)
            IN SubVecinos(g,
                   [sacado EXCEPT !.oob = @ \/ FueraDeRango(g.row_ptr, nodoActual)
                                      \/ FueraDeRango(g.row_ptr, nodoActual + 1)],
                   nodoActual, inicio, fin, nivel, b)

SubPaso(g, st, profundidadMaxima, b) ==
    LET nodoActual == Head(st.cola)[1]
        nivel == Head(st.cola)[2]
        sacado == [st EXCEPT !.cola = Tail(@)]
    IN IF nivel >= profundidadMaxima THEN sacado
       ELSE LET inicio == Leer(g.row_ptr, nodoActual, b)
                fin == Leer(g.row_ptr, nodoActual + 1, b)
            IN SubVecinos(g,
                   [sacado EXCEPT !.oob = @ \/ FueraDeRango(g.row_ptr, nodoActual)
                                      \/ FueraDeRango(g.row_ptr, nodoActual + 1)],
                   nodoActual, inicio, fin, nivel, b)

RECURSIVE SubBucle(_, _, _, _)
SubBucle(g, st, profundidadMaxima, b) ==
    IF st.cola = <<>> THEN st
    ELSE SubBucle(g, SubPaso(g, st, profundidadMaxima, b), profundidadMaxima, b)

\* getAristasSubgrafo(nodoInicio, profundidadMaxima), whole.
GetAristasSubgrafo(g, nodoInicio, profundidadMaxima, b) ==
    IF ~NodoValido(g, nodoInicio) THEN [val |-> <<>>, oob |-> FALSE]
    ELSE LET st == SubBucle(g, SubInicio(g, nodoInicio), profundidadMaxima, b)
         IN [val |-> st.resultado, oob |-> st.oob]

\* ----------------------------------------------------------------- Init
NoArgs == [nodo |-> 0, prof |-> 0]

Init ==
    /\ numNodos = 0
    /\ numAristas = 0
    /\ row_ptr = <<>>
    /\ column_indices = <<>>
    /\ values = <<>>
    /\ gradoEntrada = <<>>
    /\ pc = "idle"
    /\ op = "GrafoDisperso"
    /\ args = NoArgs
    /\ ret = TRUE
    /\ cola = <<>>
    /\ pila = <<>>
    /\ visitado = {}
    /\ nodosEnSubgrafo = {}
    /\ resultado = <<>>
    /\ empujes = 0
    /\ oob = FALSE
    /\ archivo = EmptyBag
    /\ fresco = MotorVacio
    /\ cargas = 0

PonerMotor(g) ==
    /\ numNodos' = g.numNodos
    /\ numAristas' = g.numAristas
    /\ row_ptr' = g.row_ptr
    /\ column_indices' = g.column_indices
    /\ values' = g.values
    /\ gradoEntrada' = g.gradoEntrada

\* bool cargarDatos(filename), the file opened: parse, construirCSR, return
\* true.
CargarDatos(f) ==
    /\ pc = "idle"
    /\ LET leido == LeerAristas(f) IN
       \E d \in Desenlaces(
                    ConstruirCSR(Motor, leido.aristas, leido.maxNodo, 0),
                    {ConstruirCSR(Motor, leido.aristas, leido.maxNodo, b) :
                         b \in Basura}) :
           /\ PonerMotor(d[1])
           /\ oob' = (oob \/ d[1].oob)
           /\ pc' = IF d[2] THEN "abortado" ELSE "idle"
           /\ ret' = IF d[2] THEN <<>> ELSE TRUE
    /\ op' = "cargarDatos"
    /\ args' = NoArgs
    /\ archivo' = BolsaDe(f)
    /\ fresco' = LET leido == LeerAristas(f)
                     g == ConstruirCSR(MotorVacio, leido.aristas,
                                       leido.maxNodo, 0)
                 IN [h \in DOMAIN MotorVacio |-> g[h]]
    /\ cargas' = cargas + 1
    /\ UNCHANGED locales

\* bool cargarDatos(filename), the file not opened.
CargarDatosFallo ==
    /\ pc = "idle"
    /\ PonerMotor(CargaFallida(Motor))
    /\ op' = "cargarDatos"
    /\ args' = NoArgs
    /\ ret' = FALSE
    /\ UNCHANGED <<pc, locales, oob, historia>>

\* A query that returns at once: r0 and rs are its [val, oob], as for
\* Desenlaces.
Consultar(nombre, a, r0, rs) ==
    /\ op' = nombre
    /\ args' = a
    /\ \E d \in Desenlaces(r0, rs) :
           /\ pc' = IF d[2] THEN "abortado" ELSE "idle"
           /\ ret' = IF d[2] THEN <<>> ELSE d[1].val
           /\ oob' = (oob \/ d[1].oob)
    /\ UNCHANGED <<motor, locales, historia>>

Arg(nodo, prof) == [nodo |-> nodo, prof |-> prof]

LlamarObtenerGrado(nodo) ==
    /\ pc = "idle"
    /\ Consultar("obtenerGrado", Arg(nodo, 0), ObtenerGrado(Motor, nodo, 0),
                 {ObtenerGrado(Motor, nodo, b) : b \in Basura})

LlamarObtenerGradoEntrada(nodo) ==
    /\ pc = "idle"
    /\ Consultar("obtenerGradoEntrada", Arg(nodo, 0),
                 ObtenerGradoEntrada(Motor, nodo, 0),
                 {ObtenerGradoEntrada(Motor, nodo, b) : b \in Basura})

LlamarGetVecinos(nodo) ==
    /\ pc = "idle"
    /\ Consultar("getVecinos", Arg(nodo, 0), GetVecinos(Motor, nodo, 0),
                 {GetVecinos(Motor, nodo, b) : b \in Basura})

Valor(v) == [val |-> v, oob |-> FALSE]

LlamarGetNumNodos ==
    /\ pc = "idle"
    /\ Consultar("getNumNodos", NoArgs, Valor(numNodos), {Valor(numNodos)})

LlamarGetNumAristas ==
    /\ pc = "idle"
    /\ Consultar("getNumAristas", NoArgs, Valor(numAristas),
                 {Valor(numAristas)})

LlamarGetNodoMayorGrado ==
    /\ pc = "idle"
    /\ Consultar("getNodoMayorGrado", NoArgs, GetNodoMayorGrado(Motor, 0),
                 {GetNodoMayorGrado(Motor, b) : b \in Basura})

LlamarGetMemoriaUsada ==
    /\ pc = "idle"
    /\ \E holgura \in 0..1 :
           Consultar("getMemoriaUsada", NoArgs,
                     Valor(GetMemoriaUsada(Motor, holgura)),
                     {Valor(GetMemoriaUsada(Motor, holgura))})

LlamarPrintDebugInfo ==
    /\ pc = "idle"
    /\ Consultar("printDebugInfo", NoArgs, Valor(PrintDebugInfo(Motor)),
                 {Valor(PrintDebugInfo(Motor))})

Locales ==
    [cola |-> cola, pila |-> pila, visitado |-> visitado,
     nodosEnSubgrafo |-> nodosEnSubgrafo, resultado |-> resultado,
     empujes |-> empujes, oob |-> FALSE]

PonerLocales(st) ==
    /\ cola' = st.cola
    /\ pila' = st.pila
    /\ visitado' = st.visitado
    /\ nodosEnSubgrafo' = st.nodosEnSubgrafo
    /\ resultado' = st.resultado
    /\ empujes' = st.empujes

\* The entry of a traversal: the start node is checked, the locals are set up.
Entrar(nombre, a, inicio) ==
    /\ op' = nombre
    /\ args' = a
    /\ ret' = <<>>
    /\ IF NodoValido(Motor, a.nodo)
       THEN pc' = nombre /\ PonerLocales(inicio)
       ELSE pc' = "idle" /\ PonerLocales(LocalesVacios)
    /\ UNCHANGED <<motor, oob, historia>>

\* One iteration of a traversal's loop: r0 and rs are the locals after it, as
\* for Desenlaces.
Iterar(nombre, r0, rs) ==
    /\ \E d \in Desenlaces(r0, rs) :
           /\ pc' = IF d[2] THEN "abortado" ELSE nombre
           /\ PonerLocales(d[1])
           /\ oob' = (oob \/ d[1].oob)
    /\ UNCHANGED <<motor, op, args, ret, historia>>

\* The loop has ended: the output is returned, the locals go away.
Retornar_LiberaValues(nombre) ==
    /\ pc' = "idle"
    /\ ret' = resultado
    /\ PonerLocales(LocalesVacios)
    /\ values' = <<>>
    /\ UNCHANGED <<numNodos, numAristas, row_ptr, column_indices, gradoEntrada,
                   op, args, oob, historia>>

Retornar(nombre) ==
    /\ pc' = "idle"
    /\ ret' = resultado
    /\ PonerLocales(LocalesVacios)
    /\ UNCHANGED <<motor, op, args, oob, historia>>

LlamarBFS(nodo, prof) ==
    /\ pc = "idle"
    /\ Entrar("BFS", Arg(nodo, prof), BFSInicio(Motor, nodo))

PasoBFS ==
    /\ pc = "BFS"
    /\ cola # <<>>
    /\ Iterar("BFS", BFSPaso(Motor, Locales, args.prof, 0),
              {BFSPaso(Motor, Locales, args.prof, b) : b \in Basura})

RetornarBFS ==
    /\ pc = "BFS"
    /\ cola = <<>>
    /\ Retornar("BFS")

LlamarDFS(nodo) ==
    /\ pc = "idle"
    /\ Entrar("DFS", Arg(nodo, 0), DFSInicio(Motor, nodo))

PasoDFS ==
    /\ pc = "DFS"
    /\ pila # <<>>
    /\ Iterar("DFS", DFSPaso(Motor, Locales, 0),
              {DFSPaso(Motor, Locales, b) : b \in Basura})

RetornarDFS ==
    /\ pc = "DFS"
    /\ pila = <<>>
    /\ Retornar("DFS")

LlamarGetAristasSubgrafo(nodo, prof) ==
    /\ pc = "idle"
    /\ Entrar("getAristasSubgrafo", Arg(nodo, prof), SubInicio(Motor, nodo))

PasoGetAristasSubgrafo ==
    /\ pc = "getAristasSubgrafo"
    /\ cola # <<>>
    /\ Iterar("getAristasSubgrafo", SubPaso(Motor, Locales, args.prof, 0),
              {SubPaso(Motor, Locales, args.prof, b) : b \in Basura})

RetornarGetAristasSubgrafo ==
    /\ pc = "getAristasSubgrafo"
    /\ cola = <<>>
    /\ Retornar("getAristasSubgrafo")

\* The arguments the callers pass: every id from -1 to one past the largest,
\* every depth from -1 to one past the largest id.
Ids(n) == -1..(n + 1)

Consultas(n) ==
    \/ \E nodo \in Ids(n) : LlamarObtenerGrado(nodo)
    \/ \E nodo \in Ids(n) : LlamarObtenerGradoEntrada(nodo)
    \/ \E nodo \in Ids(n) : LlamarGetVecinos(nodo)
    \/ LlamarGetNumNodos
    \/ LlamarGetNumAristas
    \/ LlamarGetNodoMayorGrado
    \/ LlamarGetMemoriaUsada
    \/ LlamarPrintDebugInfo
    \/ \E nodo \in Ids(n), prof \in Ids(n) : LlamarBFS(nodo, prof)
    \/ PasoBFS
    \/ RetornarBFS
    \/ \E nodo \in Ids(n) : LlamarDFS(nodo)
    \/ PasoDFS
    \/ RetornarDFS
    \/ \E nodo \in Ids(n), prof \in Ids(n) : LlamarGetAristasSubgrafo(nodo, prof)
    \/ PasoGetAristasSubgrafo
    \/ RetornarGetAristasSubgrafo

Next ==
    \/ pc = "idle" /\ cargas < MaxCargas
          /\ \E f \in ArchivosRecarga : CargarDatos(f)
    \/ CargarDatosFallo
    \/ Consultas(MaxNodoRecarga)

Spec == Init /\ [][Next]_vars

NextFresco ==
    \/ pc = "idle" /\ cargas = 0 /\ \E f \in ArchivosFresco : CargarDatos(f)
    \/ Consultas(MaxNodo)

SpecFresco == Init /\ [][NextFresco]_vars

\* One load of a file of ArchivosOrden on a new engine, then BFS from any
\* node to any depth.
NextOrden ==
    \/ pc = "idle" /\ cargas = 0 /\ \E f \in ArchivosOrden : CargarDatos(f)
    \/ \E nodo \in 0..MaxNodoOrden, prof \in 1..MaxNodoOrden :
           LlamarBFS(nodo, prof)
    \/ PasoBFS
    \/ RetornarBFS

SpecOrden == Init /\ [][NextOrden]_vars

\* ------------------------------------------------------ the input graph
\* What the loaded file says, read off its lines alone.

\* A line that is an edge: two integers.
EsArista(l) == ~l.hash /\ Len(l.toks) = 2 /\ l.toks[1].ent /\ l.toks[2].ent

\* How many lines of the file are the edge (o, d).
Veces(o, d) == CopiesIn(Linea(<<Ent(o), Ent(d)>>), archivo)

\* The ids the file mentions in its edges.
IdsEntrada ==
    UNION {{l.toks[1].val, l.toks[2].val} : l \in {m \in DOMAIN archivo : EsArista(m)}}

\* The largest of them, 0 when there is none.
MaxIdEntrada == CHOOSE m \in IdsEntrada \cup {0} : \A x \in IdsEntrada : x <= m

RECURSIVE SumaSeq(_)
SumaSeq(v) == IF v = <<>> THEN 0 ELSE Head(v) + SumaSeq(Tail(v))

Salientes(i) == SumaSeq([k \in 1..(MaxIdEntrada + 1) |-> Veces(i, k - 1)])
Entrantes(i) == SumaSeq([k \in 1..(MaxIdEntrada + 1) |-> Veces(k - 1, i)])

Ocurrencias(v, x) == Cardinality({k \in DOMAIN v : v[k] = x})

NodosMotor == 0..(numNodos - 1)

\* The engine holds the graph of one load on a new GrafoDisperso.
RecienCargado == cargas = 1 /\ pc # "abortado"

\* The nodes the input has an edge to from u.
Suc(u) == {d \in IdsEntrada : Veces(u, d) > 0}

\* The nodes at the end of some path of exactly k edges from s.
RECURSIVE AlcanceEn(_, _)
AlcanceEn(s, k) ==
    IF k = 0 THEN {s} ELSE UNION {Suc(u) : u \in AlcanceEn(s, k - 1)}

\* The nodes some path from s reaches; a shortest path repeats no node.
Alcanzables(s) == UNION {AlcanceEn(s, k) : k \in 0..MaxIdEntrada}

\* The number of edges of a shortest path from s to v, v reachable.
Dist(s, v) ==
    CHOOSE k \in 0..MaxIdEntrada :
        v \in AlcanceEn(s, k) /\ \A j \in 0..(k - 1) : v \notin AlcanceEn(s, j)

Menor(S) == CHOOSE x \in S : \A y \in S : x <= y

\* The preorder of the recursive depth-first search: visit u, then each
\* neighbour of u, in ascending order, that is unvisited when its turn comes.
RECURSIVE Preorden(_, _)
RECURSIVE PreordenHijos(_, _)
Preorden(u, vis) ==
    PreordenHijos(Suc(u), [out |-> <<u>>, vis |-> vis \cup {u}])
PreordenHijos(hijos, acc) ==
    IF hijos = {} THEN acc
    ELSE LET v == Menor(hijos) IN
         IF v \in acc.vis THEN PreordenHijos(hijos \ {v}, acc)
         ELSE LET r == Preorden(v, acc.vis)
              IN PreordenHijos(hijos \ {v},
                               [out |-> acc.out \o r.out, vis |-> r.vis])

\* The last call has returned and was op on a valid start node of the graph
\* of one load on a new engine.
Devuelto(nombre) ==
    /\ RecienCargado
    /\ pc = "idle"
    /\ op = nombre
    /\ args.nodo \in NodosMotor

\* -------------------------------------------------------------- claims

\* C1: after a successful cargarDatos on a new engine, row_ptr has length
\* numNodos + 1, starts at 0, never decreases, and ends at numAristas.
C1_RowPtr ==
    RecienCargado =>
        /\ Len(row_ptr) = numNodos + 1
        /\ row_ptr[1] = 0
        /\ \A i \in 1..numNodos : row_ptr[i] <= row_ptr[i + 1]
        /\ row_ptr[numNodos + 1] = numAristas

\* A loaded graph whose rows are of different lengths, the last one empty.
C1_Testigo ==
    /\ RecienCargado
    /\ numNodos = 3
    /\ row_ptr = <<0, 2, 3, 3>>

\* C6: after a load on a new engine, for every node i, obtenerGrado(i) is
\* row_ptr[i+1] - row_ptr[i] and the number of input edges leaving i,
\* obtenerGradoEntrada(i) is the number of input edges arriving at i
\* (duplicates counted), and the in-degrees add up to numAristas.
C6_Grados ==
    RecienCargado =>
        /\ \A i \in NodosMotor :
               /\ ObtenerGrado(Motor, i, 0).val = row_ptr[i + 2] - row_ptr[i + 1]
               /\ ObtenerGrado(Motor, i, 0).val = Salientes(i)
               /\ ObtenerGradoEntrada(Motor, i, 0).val = Entrantes(i)
        /\ SumaSeq([i \in 1..numNodos |->
                        ObtenerGradoEntrada(Motor, i - 1, 0).val]) = numAristas
        /\ (pc = "idle" /\ op = "obtenerGrado" /\ args.nodo \in NodosMotor)
               => ret = Salientes(args.nodo)
        /\ (pc = "idle" /\ op = "obtenerGradoEntrada" /\ args.nodo \in NodosMotor)
               => ret = Entrantes(args.nodo)

\* obtenerGradoEntrada has returned 2 for a node that a duplicated edge
\* reaches and that has no edge of its own.
C6_Testigo ==
    /\ RecienCargado
    /\ pc = "idle"
    /\ op = "obtenerGradoEntrada"
    /\ args.nodo \in NodosMotor
    /\ ret = 2
    /\ ObtenerGrado(Motor, args.nodo, 0).val = 0
    /\ \E l \in DOMAIN archivo : EsArista(l) /\ archivo[l] = 2

\* C7: after a load on a new engine, for every node i, getVecinos(i) is
\* sorted ascending and holds each destination d exactly as many times as the
\* input has the edge (i, d).
C7_Vecinos ==
    RecienCargado =>
        /\ \A i \in NodosMotor :
               LET v == GetVecinos(Motor, i, 0).val IN
               /\ \A k \in 1..(Len(v) - 1) : v[k] <= v[k + 1]
               /\ \A d \in IdsEntrada \cup {v[k] : k \in DOMAIN v} :
                      Ocurrencias(v, d) = Veces(i, d)
        /\ (pc = "idle" /\ op = "getVecinos" /\ args.nodo \in NodosMotor)
               => ret = GetVecinos(Motor, args.nodo, 0).val

\* getVecinos has returned a row with a repeated destination followed by a
\* larger one.
C7_Testigo ==
    /\ RecienCargado
    /\ pc = "idle"
    /\ op = "getVecinos"
    /\ Len(ret) = 3
    /\ ret[1] = ret[2]
    /\ ret[2] < ret[3]

\* C3: on a newly loaded graph, BFS(S, maxDepth) with maxDepth >= numNodos
\* returns exactly the nodes reachable from S, each once, each paired with
\* the length of a shortest path from S.
C3_BFSCompleto ==
    (Devuelto("BFS") /\ args.prof >= numNodos) =>
        /\ {ret[k][1] : k \in DOMAIN ret} = Alcanzables(args.nodo)
        /\ Len(ret) = Cardinality(Alcanzables(args.nodo))
        /\ \A k \in DOMAIN ret : ret[k][2] = Dist(args.nodo, ret[k][1])

\* A full BFS has returned three nodes, the last two hops away although the
\* start has two outgoing edges.
C3_Testigo ==
    /\ Devuelto("BFS")
    /\ args.prof >= numNodos
    /\ Len(ret) = 3
    /\ ret[3][2] = 2
    /\ ObtenerGrado(Motor, args.nodo, 0).val = 2

\* C4: on a newly loaded graph, DFS(S) returns exactly the nodes reachable
\* from S, S included, each once.
C4_DFSAlcanzables ==
    Devuelto("DFS") =>
        /\ {ret[k] : k \in DOMAIN ret} = Alcanzables(args.nodo)
        /\ Len(ret) = Cardinality(Alcanzables(args.nodo))

\* DFS has returned every node of a three-node graph in which one node was
\* pushed twice (two edges arrive at it from visited nodes).
C4_Testigo ==
    /\ Devuelto("DFS")
    /\ Len(ret) = 3
    /\ \E v \in NodosMotor : v # args.nodo /\ Entrantes(v) = 2

\* C8: for a valid start S and maxDepth d >= 0, BFS(S, d) returns exactly the
\* nodes at most d hops from S, each once and paired with its hop distance;
\* BFS(S, 0) returns exactly <<(S, 0)>>.
C8_BFSAcotado ==
    (Devuelto("BFS") /\ args.prof >= 0) =>
        /\ {ret[k][1] : k \in DOMAIN ret}
               = {v \in Alcanzables(args.nodo) : Dist(args.nodo, v) <= args.prof}
        /\ \A j, k \in DOMAIN ret : ret[j][1] = ret[k][1] => j = k
        /\ \A k \in DOMAIN ret : ret[k][2] = Dist(args.nodo, ret[k][1])
        /\ args.prof = 0 => ret = <<<<args.nodo, 0>>>>

\* BFS(S, 1) has returned S and a neighbour and has left out a node two hops
\* away.
C8_Testigo ==
    /\ Devuelto("BFS")
    /\ args.prof = 1
    /\ Len(ret) = 2
    /\ Cardinality(Alcanzables(args.nodo)) = 3

\* C9: on a newly loaded graph, the sequence DFS(S) returns is the preorder of
\* the recursive depth-first search from S that takes each node's unvisited
\* neighbours in ascending order.
C9_DFSPreorden ==
    Devuelto("DFS") => ret = Preorden(args.nodo, {}).out

\* DFS from a node with two neighbours has returned the smaller one's
\* descendant before the larger one: the larger was pushed first and popped
\* last.
C9_Testigo ==
    /\ Devuelto("DFS")
    /\ Len(ret) = 3
    /\ ObtenerGrado(Motor, args.nodo, 0).val = 2
    /\ ret[2] < ret[3]
    /\ Veces(ret[2], ret[3]) = 1

\* What every query returns on the engine g, out-of-range reads observing b.
Respuestas(g, n, b) ==
    [numNodos |-> g.numNodos,
     numAristas |-> g.numAristas,
     obtenerGrado |-> [i \in Ids(n) |-> ObtenerGrado(g, i, b).val],
     obtenerGradoEntrada |-> [i \in Ids(n) |-> ObtenerGradoEntrada(g, i, b).val],
     getVecinos |-> [i \in Ids(n) |-> GetVecinos(g, i, b).val],
     getNodoMayorGrado |-> GetNodoMayorGrado(g, b).val,
     BFS |-> [i \in Ids(n), d \in Ids(n) |-> BFS(g, i, d, b).val],
     DFS |-> [i \in Ids(n) |-> DFS(g, i, b).val],
     getAristasSubgrafo |->
         [i \in Ids(n), d \in Ids(n) |-> GetAristasSubgrafo(g, i, d, b).val]]

\* C2: after cargarDatos(A) then cargarDatos(B) on one engine, the counts and
\* every query return what they return on a new engine that loaded only B.
C2_Recarga ==
    (cargas >= 2 /\ pc = "idle") =>
        \A b \in Basura :
            Respuestas(Motor, MaxNodoRecarga, b)
                = Respuestas(fresco, MaxNodoRecarga, b)

\* C2, with no access out of range on the way: the second load stays inside
\* every vector and the in-degrees still differ from a new engine's.
C2_RecargaSinDesborde ==
    (cargas >= 2 /\ pc = "idle" /\ ~oob) =>
        \A i \in NodosMotor :
            ObtenerGradoEntrada(Motor, i, 0).val
                = ObtenerGradoEntrada(fresco, i, 0).val

\* C5: a cargarDatos that cannot open its file (a cargarDatos step that is
\* no successful load) returns false and leaves numNodos, numAristas,
\* row_ptr, column_indices, values and gradoEntrada as they were; the queries
\* read nothing else of the engine, so each returns what it returned before.
C5_CargaFallida ==
    [][(pc = "idle" /\ pc' = "idle" /\ op' = "cargarDatos" /\ cargas' = cargas)
           => /\ ret' = FALSE
              /\ motor' = motor
              /\ oob' = oob]_vars

\* A load has failed on an engine that holds a graph with edges.
C5_Testigo ==
    /\ pc = "idle"
    /\ op = "cargarDatos"
    /\ ret = FALSE
    /\ cargas >= 1
    /\ numAristas >= 2

ConNodo ==
    {"obtenerGrado", "obtenerGradoEntrada", "getVecinos", "BFS", "DFS",
     "getAristasSubgrafo"}

Centinela(nombre) ==
    IF nombre \in {"obtenerGrado", "obtenerGradoEntrada"} THEN -1 ELSE <<>>

\* C10: in every state of the engine, before any load too, a query called
\* with a node id outside [0, numNodos) returns -1 (obtenerGrado,
\* obtenerGradoEntrada) or the empty sequence (getVecinos, BFS, DFS,
\* getAristasSubgrafo), does not fail, reads nothing out of range and leaves
\* the engine as it was.
C10_NodoInvalido ==
    [][(/\ pc = "idle"
        /\ op' \in ConNodo
        /\ args'.nodo < 0 \/ args'.nodo >= numNodos)
           => /\ pc' = "idle"
              /\ ret' = Centinela(op')
              /\ motor' = motor
              /\ oob' = oob]_vars

\* DFS called with the id numNodos on an engine that has loaded a graph has
\* returned the empty sequence.
C10_Testigo ==
    /\ pc = "idle"
    /\ op = "DFS"
    /\ cargas >= 1
    /\ numNodos >= 2
    /\ args.nodo = numNodos
    /\ ret = <<>>

\* The largest number of input edges leaving one node of the engine, 0 when
\* there is no node.
MayorSalientes ==
    LET grados == {Salientes(i) : i \in NodosMotor}
    IN CHOOSE m \in grados \cup {0} : \A x \in grados : x <= m

\* C11: on a new engine and after one load on it, getNodoMayorGrado returns
\* (-1, 0) when there is no node or no node has an outgoing edge, and
\* otherwise (id, degree) with degree the largest out-degree of the input
\* graph and id the lowest node that has it.
C11_MayorGrado ==
    (pc = "idle" /\ op = "getNodoMayorGrado" /\ cargas <= 1) =>
        IF MayorSalientes = 0 THEN ret = <<-1, 0>>
        ELSE /\ ret[2] = MayorSalientes
             /\ ret[1] \in NodosMotor
             /\ Salientes(ret[1]) = MayorSalientes
             /\ \A j \in NodosMotor : Salientes(j) = MayorSalientes => ret[1] <= j

\* getNodoMayorGrado has returned node 1 where node 2 has the same out-degree
\* and node 0 has none.
C11_Testigo ==
    /\ RecienCargado
    /\ pc = "idle"
    /\ op = "getNodoMayorGrado"
    /\ ret = <<1, 1>>
    /\ Salientes(0) = 0
    /\ Salientes(2) = 1

\* ------------------------------------------- breadth-first order, by level
\* The elements of a set of integers in ascending order.
RECURSIVE EnOrden(_)
EnOrden(S) == IF S = {} THEN <<>> ELSE <<Menor(S)>> \o EnOrden(S \ {Menor(S)})

RECURSIVE Aplanar(_)
Aplanar(ss) == IF ss = <<>> THEN <<>> ELSE Head(ss) \o Aplanar(Tail(ss))

\* The input edges leaving u, by ascending destination, each as often as the
\* file has it.
FilaEntrada(u) ==
    LET ids == EnOrden(IdsEntrada)
    IN Aplanar([k \in DOMAIN ids |-> Repetir(Veces(u, ids[k]), <<u, ids[k]>>)])

\* The nodes at most k edges from s.
Cercanos(s, k) == UNION {AlcanceEn(s, j) : j \in 0..k}

\* The nodes first reached from the nodes of padres taken in order, each
\* parent's new neighbours in ascending order.
RECURSIVE NuevosDe(_, _)
NuevosDe(padres, vistos) ==
    IF padres = <<>> THEN <<>>
    ELSE LET hijos == Suc(Head(padres)) \ vistos
         IN EnOrden(hijos) \o NuevosDe(Tail(padres), vistos \cup hijos)

\* The nodes of level k of the breadth-first search from s, in the order
\* they are discovered.
RECURSIVE NivelBFS(_, _)
NivelBFS(s, k) ==
    IF k = 0 THEN <<s>>
    ELSE NuevosDe(NivelBFS(s, k - 1), Cercanos(s, k - 1))

\* The nodes of the levels 0..d, level after level.
OrdenBFS(s, d) == Aplanar([k \in 1..(d + 1) |-> NivelBFS(s, k - 1)])

\* C12: on a newly loaded graph, getAristasSubgrafo(S, d) with S valid is the
\* concatenation, over the nodes of BFS level < d in the order the search
\* dequeues them, of all the outgoing edges of each node in row order, edges
\* to nodes already discovered included; nothing leaves a node of level >= d
\* and for d <= 0 the result is empty.
C12_AristasSubgrafo ==
    Devuelto("getAristasSubgrafo") =>
        LET us == OrdenBFS(args.nodo, args.prof - 1)
        IN ret = Aplanar([k \in DOMAIN us |-> FilaEntrada(us[k])])

\* getAristasSubgrafo(S, 2) has returned three edges, the second one back to
\* S, which was discovered long before.
C12_Testigo ==
    /\ Devuelto("getAristasSubgrafo")
    /\ args.prof = 2
    /\ Len(ret) = 3
    /\ ret[2][2] = args.nodo
    /\ ret[2][1] # args.nodo

\* The number of lines of the file that are edges.
NumAristasEntrada ==
    SumaSeq([i \in 1..(MaxIdEntrada + 1) |-> Salientes(i - 1)])

\* C13: the parser accepts a line that is no comment only if it is exactly
\* two integers; a line of one integer, with a token that is no integer, or of
\* two integers and further tokens adds no edge and does not raise the
\* largest id: after one successful load on a new engine numAristas is the
\* number of two-integer lines and numNodos is one more than the largest id
\* on them.
C13_SoloDosEnteros ==
    RecienCargado =>
        /\ numAristas = NumAristasEntrada
        /\ numNodos = MaxIdEntrada + 1

\* A line whose first two tokens are integers, whatever follows.
DosPrimeros(l) ==
    ~l.hash /\ Len(l.toks) >= 2 /\ l.toks[1].ent /\ l.toks[2].ent

\* What holds instead: numAristas is the number of lines that begin with two
\* integers, so a line of one integer or of an integer and a word is skipped
\* and a line of three integers is not.
C13_DosPrimerosEnteros ==
    RecienCargado =>
        numAristas
            = BagCardinality([l \in {m \in DOMAIN archivo : DosPrimeros(m)}
                                 |-> archivo[l]])

\* C14: after a successful load on a new engine, getNumAristas() is the
\* number of accepted edge lines, duplicates counted, and getNumNodos() is one
\* more than the largest id on them; a file with no accepted line (empty, all
\* comments) loads with numNodos = 1 and numAristas = 0; an id below the
\* largest that no line mentions is a node of out-degree 0 and in-degree 0.
C14_Conteos ==
    RecienCargado =>
        /\ numAristas = NumAristasEntrada
        /\ numNodos = MaxIdEntrada + 1
        /\ IdsEntrada = {} => (numNodos = 1 /\ numAristas = 0)
        /\ \A i \in 0..MaxIdEntrada :
               i \notin IdsEntrada =>
                   /\ ObtenerGrado(Motor, i, 0).val = 0
                   /\ ObtenerGradoEntrada(Motor, i, 0).val = 0
        /\ (pc = "idle" /\ op = "getNumNodos") => ret = MaxIdEntrada + 1
        /\ (pc = "idle" /\ op = "getNumAristas") => ret = NumAristasEntrada

\* getNumAristas has returned 2 for a file whose two edge lines are the same
\* edge (0, 2): node 1 is mentioned nowhere.
C14_Testigo ==
    /\ RecienCargado
    /\ pc = "idle"
    /\ op = "getNumAristas"
    /\ ret = 2
    /\ Veces(0, 2) = 2
    /\ numNodos = 3
    /\ BagIn(Comentario, archivo)

\* What the query op returns on the engine as it is now, called with args.
RespuestaAhora ==
    CASE op = "obtenerGrado" -> ObtenerGrado(Motor, args.nodo, 0).val
      [] op = "obtenerGradoEntrada" -> ObtenerGradoEntrada(Motor, args.nodo, 0).val
      [] op = "getVecinos" -> GetVecinos(Motor, args.nodo, 0).val
      [] op = "getNumNodos" -> numNodos
      [] op = "getNumAristas" -> numAristas
      [] op = "getNodoMayorGrado" -> GetNodoMayorGrado(Motor, 0).val
      [] op = "printDebugInfo" -> PrintDebugInfo(Motor)
      [] op = "BFS" -> BFS(Motor, args.nodo, args.prof, 0).val
      [] op = "DFS" -> DFS(Motor, args.nodo, 0).val
      [] op = "getAristasSubgrafo" ->
             GetAristasSubgrafo(Motor, args.nodo, args.prof, 0).val
      [] OTHER -> ret

\* The value the last query returned is the value of that query on the
\* engine's six fields and its arguments: nothing the queries in between did
\* has a part in it.  (getMemoriaUsada also reads the vectors' capacities,
\* which are no field of the six: it returns at least the sizes' share.)
C15_MismaRespuesta ==
    (pc = "idle" /\ ~oob) =>
        /\ ret = RespuestaAhora
        /\ op = "getMemoriaUsada" => ret >= GetMemoriaUsada(Motor, 0)

\* C15: every step of every query (BFS, DFS, obtenerGrado,
\* obtenerGradoEntrada, getVecinos, getNumNodos, getNumAristas,
\* getNodoMayorGrado, getMemoriaUsada, getAristasSubgrafo, printDebugInfo),
\* with valid or invalid arguments, leaves numNodos, numAristas, row_ptr,
\* column_indices, values and gradoEntrada as they were, and so a query
\* returns the same result whatever queries ran since the last load.
C15_SoloLectura ==
    /\ [][op' # "cargarDatos" => motor' = motor]_vars
    /\ []C15_MismaRespuesta

\* A depth-limited BFS has returned two nodes on an engine that holds a
\* graph, every access so far within its vector.
C15_Testigo ==
    /\ pc = "idle"
    /\ ~oob
    /\ cargas >= 1
    /\ op = "BFS"
    /\ args.prof = 1
    /\ Len(ret) = 2
    /\ numAristas = 2

C16_SoloBajoNivel ==
    Devuelto("getAristasSubgrafo") =>
        \A u, v \in IdsEntrada \cup {args.nodo} :
            (\E j \in DOMAIN ret : ret[j] = <<u, v>>)
                <=> /\ Veces(u, v) > 0
                    /\ u \in Alcanzables(args.nodo)
                    /\ Dist(args.nodo, u) < args.prof

\* C17: in every state reached after at least one successful load, by any
\* sequence of loads, failed loads and queries (here: every access so far
\* within its vector), column_indices and values have length numAristas,
\* row_ptr[numNodos] = numAristas, every entry of values is 1, gradoEntrada
\* has length numNodos and its entries add up to numAristas.
C17_Invariantes ==
    (cargas >= 1 /\ pc # "abortado" /\ ~oob) =>
        /\ Len(column_indices) = numAristas
        /\ Len(values) = numAristas
        /\ Len(row_ptr) = numNodos + 1
        /\ row_ptr[numNodos + 1] = numAristas
        /\ \A k \in DOMAIN values : values[k] = 1
        /\ Len(gradoEntrada) = numNodos
        /\ SumaSeq(gradoEntrada) = numAristas

\* What holds after one load on a new engine.
C17_TrasUnaCarga == RecienCargado => C17_Invariantes

\* What holds after any number of loads: the lengths and the entries of
\* values.
C17_Longitudes ==
    (cargas >= 1 /\ pc # "abortado") =>
        /\ Len(column_indices) = numAristas
        /\ Len(values) = numAristas
        /\ Len(row_ptr) = numNodos + 1
        /\ \A k \in DOMAIN values : values[k] = 1
        /\ Len(gradoEntrada) = numNodos

\* The node ids in the BFS queue followed by those in its output.
EnColaOSalida ==
    [k \in 1..Len(cola) |-> cola[k][1]]
        \o [k \in 1..Len(resultado) |-> resultado[k][1]]

\* C18: at every step of the BFS loop on a newly loaded graph, no node id
\* occurs twice among the queue and the output together, every node in the
\* queue is marked visited, and every node marked visited is in the queue or
\* in the output: a node is marked when it is enqueued and enqueued once.
C18_ColaBFS ==
    (pc = "BFS" /\ RecienCargado) =>
        /\ \A j, k \in DOMAIN EnColaOSalida :
               EnColaOSalida[j] = EnColaOSalida[k] => j = k
        /\ \A k \in DOMAIN cola : cola[k][1] \in visitado
        /\ \A v \in visitado : \E k \in DOMAIN EnColaOSalida : EnColaOSalida[k] = v

\* The start node, which has an edge to itself and to two other nodes, has
\* been dequeued: the two others are queued and the start is not queued again.
C18_Testigo ==
    /\ pc = "BFS"
    /\ RecienCargado
    /\ Len(resultado) = 1
    /\ Len(cola) = 2
    /\ Veces(args.nodo, args.nodo) = 1

\* C19: the BFS output is in the order of discovery: S comes first, the
\* distances never decrease along the output, and within a level the nodes
\* come parent by parent in the order the parents stand in the output, the
\* nodes discovered from one parent in ascending id order; this is not the
\* ascending order of the ids.
C19_OrdenBFS ==
    Devuelto("BFS") =>
        /\ ret[1] = <<args.nodo, 0>>
        /\ \A k \in 1..(Len(ret) - 1) : ret[k][2] <= ret[k + 1][2]
        /\ [k \in DOMAIN ret |-> ret[k][1]]
               = OrdenBFS(args.nodo, Max(args.prof, 0))

\* BFS has returned five nodes, the last two on one level with the larger id
\* first: its parent stands earlier in the output.
C19_Testigo ==
    /\ Devuelto("BFS")
    /\ Len(ret) = 5
    /\ ret[4][2] = ret[5][2]
    /\ ret[4][1] > ret[5][1]

EnRecorrido == pc \in {"BFS", "DFS", "getAristasSubgrafo"}

\* The pushes a traversal can still make, plus the entries waiting in its
\* queue or stack.
Variante ==
    IF pc = "DFS" THEN 1 + numAristas - empujes + Len(pila)
    ELSE numNodos - empujes + Len(cola)

\* The BFS queue has received at most numNodos entries and the DFS stack at
\* most 1 + numAristas; the pushes still possible and the entries waiting
\* are never negative.
C20_Cotas ==
    /\ pc = "BFS" => empujes <= numNodos
    /\ pc = "DFS" => empujes <= 1 + numAristas
    /\ EnRecorrido => Variante >= 0

\* C20: on any newly loaded graph (cycles, self-loops and duplicate edges
\* included), for any start node and any maxDepth (negative, zero, larger
\* than numNodos), BFS, DFS and getAristasSubgrafo terminate: every iteration
\* of their loops lowers Variante, which never goes below 0; the BFS queue
\* receives at most numNodos entries and the DFS stack at most
\* 1 + numAristas pushes.
C20_Terminan ==
    /\ []C20_Cotas
    /\ [][(EnRecorrido /\ pc' = pc) => Variante' < Variante]_vars

\* DFS from a node of a three-node cycle has emptied its stack after three
\* pushes: the edge back to the start pushed nothing.
C20_Testigo ==
    /\ pc = "DFS"
    /\ pila = <<>>
    /\ numAristas = 3
    /\ Len(resultado) = 3
    /\ empujes = 3
    /\ \E v \in NodosMotor : Veces(v, args.nodo) = 1

\* C21: a load of an edge list of non-negative ids, on an engine in any state
\* it can reach with every access so far inside its vector (new, or holding a
\* graph of any size), keeps every access of construirCSR inside its vector:
\* each pos = currentPos[origen]++ is within [0, numAristas) and each sort
\* range [row_ptr[i], row_ptr[i+1]) lies within column_indices with
\* row_ptr[i] <= row_ptr[i+1].
C21_DentroDeRango ==
    [][(cargas' = cargas + 1 /\ ~oob) => ~oob']_vars

\* What holds instead: the first load on a new engine stays inside every
\* vector.
C21_PrimeraCarga == cargas <= 1 => ~oob

\* C22: on a newly loaded graph, for a valid start S and d >= 0, the nodes
\* that are an endpoint of some edge of getAristasSubgrafo(S, d), together
\* with S, are exactly the nodes BFS(S, d) returns; for d <= 0
\* getAristasSubgrafo returns the empty sequence.
C22_ExtremosYBFS ==
    Devuelto("getAristasSubgrafo") =>
        LET bfs == BFS(Motor, args.nodo, args.prof, 0).val
        IN /\ args.prof >= 0 =>
                  {ret[k][1] : k \in DOMAIN ret} \cup {ret[k][2] : k \in DOMAIN ret}
                      \cup {args.nodo}
                      = {bfs[k][1] : k \in DOMAIN bfs}
           /\ args.prof >= 0 =>
                  {bfs[k][1] : k \in DOMAIN bfs}
                      = {v \in Alcanzables(args.nodo) :
                             Dist(args.nodo, v) <= args.prof}
           /\ args.prof <= 0 => ret = <<>>

\* getAristasSubgrafo(S, 1) has returned two edges, one of them from S to
\* itself, on a graph where a third node lies two edges from S: the endpoints
\* are S and one neighbour.
C22_Testigo ==
    /\ Devuelto("getAristasSubgrafo")
    /\ args.prof = 1
    /\ Len(ret) = 2
    /\ ret[1][2] # ret[2][2]
    /\ Veces(args.nodo, args.nodo) = 1
    /\ Cardinality(Alcanzables(args.nodo)) = 3
====
